---- MODULE Spec2Model ----
(***************************************************************************)
(* Frame pacing and presentation protocol of the Vulkan triangle sample:   *)
(* the Win32 render loop (VulkanExampleBase::renderLoop, handleMessage,    *)
(* windowResize) driving VulkanTriangle::render over a ring of             *)
(* MAX_CONCURRENT_FRAMES frame slots, with the GPU queue and the display   *)
(* system as asynchronous environment.                                     *)
(***************************************************************************)
EXTENDS Integers, Naturals, Sequences, FiniteSets, TLC

\* Ring size. The declaring header revision is not part of the sources; the
\* design document fixes the ring at 2 slots.
MAX_CONCURRENT_FRAMES == 2

\* Largest abstract window dimension (0 is a zero-sized client area).
MaxDim == 1
\* Largest abstract camera value (contents of camera.matrices).
MaxCam == 1

Slots == 0..(MAX_CONCURRENT_FRAMES - 1)
Dims == 0..MaxDim
CamVals == 0..MaxCam

\* wParam of WM_SIZE
SIZE_RESTORED == 0
SIZE_MINIMIZED == 1
SIZE_MAXIMIZED == 2
SIZE_MAXSHOW == 3
SizeKinds == {SIZE_RESTORED, SIZE_MINIMIZED, SIZE_MAXIMIZED, SIZE_MAXSHOW}

\* Longest list of present modes a surface reports.
MaxModes == 2
\* Longest list of surface formats a surface reports.
MaxFormats == 2
\* Largest image count a surface reports.
MaxImages == 2
\* Largest number of windowResize() runs followed in the resource lifecycle.
MaxResizes == 1
\* Largest number of failing Vulkan calls followed in one run.
MaxFailures == 1

\* (uint32_t)-1, the width and height of an undefined surface extent; kept
\* as -1, outside the range of the dimensions a window can have.
UndefinedDim == -1

\* Default window size, and the smallest size the window can be dragged to.
DefaultWidth == 1280
DefaultHeight == 720
MinTrackSize == 64

\* vk::PresentModeKHR and vk::Format values a surface may report.
PresentModeKinds == {"Fifo", "Mailbox", "Immediate"}
FormatKinds == {"B8G8R8A8Unorm", "R8G8B8A8Unorm", "B8G8R8A8Srgb"}

\* Lists without repetition of at most n elements of S.
ListsOf(S, n) ==
    UNION {{l \in [1..k -> S] : \A i, j \in 1..k : i # j => l[i] # l[j]} :
           k \in 0..n}

ModeLists == ListsOf(PresentModeKinds, MaxModes)
FormatLists == ListsOf(FormatKinds, MaxFormats)

\* Extents of a window: the smallest and the default one.
Extents == {<<MinTrackSize, MinTrackSize>>, <<DefaultWidth, DefaultHeight>>}
UndefinedExtent == <<UndefinedDim, UndefinedDim>>

ExtentLe(a, b) == a[1] <= b[1] /\ a[2] <= b[2]

\* vk::SurfaceCapabilitiesKHR as the driver can report them: at least one
\* image, maxImageCount 0 (no limit) or not below minImageCount, and a
\* current extent either undefined or within the allowed extents.
SurfaceCapabilities ==
    {c \in [minImageCount : 1..MaxImages, maxImageCount : 0..MaxImages,
            currentExtent : Extents \cup {UndefinedExtent},
            minImageExtent : Extents, maxImageExtent : Extents] :
        /\ c.maxImageCount = 0 \/ c.maxImageCount >= c.minImageCount
        /\ ExtentLe(c.minImageExtent, c.maxImageExtent)
        /\ \/ c.currentExtent = UndefinedExtent
           \/ /\ ExtentLe(c.minImageExtent, c.currentExtent)
              /\ ExtentLe(c.currentExtent, c.maxImageExtent)}

\* Handles of Vulkan objects: kind, generation and index; the null handle.
NullHandle == <<"null", 0, 0>>
Handle(kind, gen, i) == <<kind, gen, i>>

VARIABLES
    pc,                  \* position of the single CPU thread
    retTo,               \* where windowResize() returns to
    currentFrame,        \* index of the current frame slot
    prepared,            \* VulkanExampleBase::prepared
    resizing,            \* VulkanExampleBase::resizing
    quitMessageReceived, \* local of renderLoop
    width, height,       \* VulkanExampleBase::width / height
    destWidth, destHeight,
    camera,              \* camera.matrices
    shaderData,          \* local of render(): the matrices written this frame
    result,              \* local of render(): last vk::Result, or "none"
    waitFences,          \* slot -> fence is signaled
    uniformBuffers,      \* slot -> contents of the mapped uniform memory
    commandBuffers,      \* slot -> "initial" | "recorded"
    scExtent,            \* extent the current swapchain was created with
    gpuQueue,            \* submitted command buffers not yet finished
    chainStatus,         \* display system: "ok" | "suboptimal" | "outofdate"
    iconic,              \* IsIconic(window)
    surfW, surfH,        \* current extent of the surface (client area)
    quitPosted,          \* WM_QUIT is pending in the message queue
    steps,               \* protocol steps taken by the running render() call
    entryFrame,          \* currentFrame when the running render() was entered
    acqStatus,           \* chainStatus seen by the acquire of this render()
    changedSinceAcquire, \* the surface changed after that acquire
    resizeCause,         \* what triggered the last windowResize()
    resizePending,       \* a resize event arrived, chain not yet reconfigured
    sizeAccepted,        \* handleMessage accepted a WM_SIZE not yet applied
    staleSeen,           \* acquire/present returned stale since that event
    everSubmitted,       \* some command buffer was submitted
    phase,               \* position of main() in the resource lifecycle
    vsync,               \* settings.vsync
    surfaceFormats,      \* formats the surface reported to initSurface
    colorFormat,         \* VulkanSwapchain::colorFormat
    surfCaps,            \* capabilities the surface reported to create
    presentModes,        \* present modes the surface reported to create
    requested,           \* width and height passed to the last create
    swapchainCI,         \* create-info of the current swapchain
    swapchain,           \* VulkanSwapchain::swapchain
    images,              \* VulkanSwapchain::images
    imageViews,          \* VulkanSwapchain::imageViews
    slotObjects,         \* slot -> handles of fence, semaphores, commands
    live,                \* Vulkan objects created and not yet destroyed
    extraImages,         \* images the driver adds to the requested count
    sameInputs,          \* the last create had the inputs of the one before
    generation,          \* number of times the frame resources were created
    surface,             \* VulkanSwapchain::surface
    depthStencil,        \* view and extent of the depth image
    frameBuffers,        \* VulkanExampleBase::frameBuffers
    destroyLog,          \* objects destroyed by VulkanSwapchain::cleanup
    failures,            \* calls of render() that returned a failure code
    closeRequested,      \* handleMessage has handled a WM_CLOSE
    imageIndex,          \* local imageIndex of the running render() call
    frameLog,            \* handles the running render() passed to Vulkan
    presentQueue         \* presents whose semaphore wait is outstanding

cpuVars == <<pc, retTo, currentFrame, prepared, resizing, quitMessageReceived,
             width, height, destWidth, destHeight, camera, shaderData, result>>
vkVars == <<waitFences, uniformBuffers, commandBuffers, scExtent, gpuQueue>>
envVars == <<chainStatus, iconic, surfW, surfH, quitPosted>>
ghostVars == <<steps, entryFrame, acqStatus, changedSinceAcquire, resizeCause,
               resizePending, sizeAccepted, staleSeen, everSubmitted>>
resourceVars == <<phase, vsync, surfaceFormats, colorFormat, surfCaps,
                  presentModes, requested, swapchainCI, swapchain, images,
                  imageViews, slotObjects, live, extraImages, sameInputs,
                  generation, surface, depthStencil, frameBuffers,
                  destroyLog>>
lifeVars == <<resourceVars, failures>>
traceVars == <<closeRequested, imageIndex, frameLog, presentQueue>>
vars == <<cpuVars, vkVars, envVars, ghostVars, lifeVars, traceVars>>

----------------------------------------------------------------------------
\* Helpers

RemoveAt(s, i) == [j \in 1..(Len(s) - 1) |-> IF j < i THEN s[j] ELSE s[j + 1]]

InFlight(s) == \E i \in 1..Len(gpuQueue) : gpuQueue[i].slot = s

Range(s) == {s[i] : i \in 1..Len(s)}

\* Indices of the swapchain images: create asks for one image more than the
\* surface's minimum, here one more than there are frame slots.
SwapchainImages == 0..MAX_CONCURRENT_FRAMES

\* Marks an index that has not been set: imageIndex before the acquire has
\* stored into it, and the entries of the log of a call not made yet.
Unset == -1

\* No Vulkan call made yet by the running render() call.
NoFrameLog ==
    [acquireSemaphore |-> Unset, commandBuffer |-> Unset,
     waitSemaphore |-> Unset, waitStage |-> "none",
     signalSemaphore |-> Unset, fence |-> Unset,
     presentWait |-> Unset, presentImage |-> Unset]

----------------------------------------------------------------------------
\* Initial state: after the constructor, initVulkan, setupWindow, prepare()
\* and the first lines of renderLoop().  width/height default to 1280x720 and
\* can be set from the command line; they are abstracted to non-zero Dims.
InitLoop(w, h) ==
    /\ pc = "pump"
    /\ retTo = "none"
    /\ currentFrame = 0
    /\ prepared = TRUE
    /\ resizing = FALSE
    /\ quitMessageReceived = FALSE
    /\ width = w
    /\ height = h
    /\ destWidth = width
    /\ destHeight = height
    /\ camera = 0
    /\ shaderData = 0
    /\ result = "none"
    /\ waitFences = [s \in Slots |-> TRUE]
    /\ uniformBuffers = [s \in Slots |-> 0]
    /\ commandBuffers = [s \in Slots |-> "initial"]
    /\ scExtent = <<width, height>>
    /\ gpuQueue = <<>>
    /\ chainStatus = "ok"
    /\ iconic = FALSE
    /\ surfW = width
    /\ surfH = height
    /\ quitPosted = FALSE
    /\ steps = <<>>
    /\ entryFrame = currentFrame
    /\ acqStatus = "none"
    /\ changedSinceAcquire = FALSE
    /\ resizeCause = "none"
    /\ resizePending = FALSE
    /\ sizeAccepted = FALSE
    /\ staleSeen = FALSE
    /\ everSubmitted = FALSE
    /\ closeRequested = FALSE
    /\ imageIndex = Unset
    /\ frameLog = NoFrameLog
    /\ presentQueue = <<>>

\* Values of the lifecycle variables while the frame loop is followed.
NoCaps ==
    [minImageCount |-> 0, maxImageCount |-> 0, currentExtent |-> <<0, 0>>,
     minImageExtent |-> <<0, 0>>, maxImageExtent |-> <<0, 0>>]
NoCreateInfo ==
    [minImageCount |-> 0, imageFormat |-> "Undefined",
     imageExtent |-> <<0, 0>>, presentMode |-> "Fifo"]
NoSlotObjects ==
    [fence |-> NullHandle, presentComplete |-> NullHandle,
     renderComplete |-> NullHandle, commandBuffer |-> NullHandle]

NoDepthStencil == [view |-> NullHandle, extent |-> <<0, 0>>]

\* Members of VulkanSwapchain and of the frame slots as constructed.
InitLife(ph, vs) ==
    /\ phase = ph
    /\ vsync = vs
    /\ surfaceFormats = <<>>
    /\ colorFormat = "Undefined"
    /\ surfCaps = NoCaps
    /\ presentModes = <<>>
    /\ requested = <<0, 0>>
    /\ swapchainCI = NoCreateInfo
    /\ swapchain = NullHandle
    /\ images = <<>>
    /\ imageViews = <<>>
    /\ slotObjects = [s \in Slots |-> NoSlotObjects]
    /\ live = {}
    /\ extraImages = 0
    /\ sameInputs = FALSE
    /\ generation = 0
    /\ surface = NullHandle
    /\ depthStencil = NoDepthStencil
    /\ frameBuffers = <<>>
    /\ destroyLog = <<>>
    /\ failures = 0

\* The frame loop starts from a prepared example of any non-zero size.
Init ==
    /\ \E w \in Dims \ {0}, h \in Dims \ {0} : InitLoop(w, h)
    /\ InitLife("off", FALSE)
----------------------------------------------------------------------------
\* Environment: the GPU queue

\* The GPU finishes one submitted command buffer: its draw has read the
\* slot's uniform memory, and the fence passed to queue.submit is signaled.
GpuComplete(i) ==
    /\ i \in 1..Len(gpuQueue)
    /\ waitFences' = [waitFences EXCEPT ![gpuQueue[i].slot] = TRUE]
    /\ gpuQueue' = RemoveAt(gpuQueue, i)
    /\ UNCHANGED <<cpuVars, uniformBuffers, commandBuffers, scExtent, envVars,
                   ghostVars>>
    /\ UNCHANGED lifeVars
    /\ UNCHANGED traceVars

\* Environment: the display system

\* Results of acquire and present that render() distinguishes; "Error" is any
\* other vk::Result.
VkResults == {"Success", "Suboptimal", "OutOfDate", "Error"}

\* Status a chain can fall to when the surface changes under it.
StaleAfter(st) ==
    IF st = "outofdate" THEN {"outofdate"} ELSE {"suboptimal", "outofdate"}

\* Results vkAcquireNextImageKHR can return for a chain in the given status.
DriverAcquire(st) ==
    CASE st = "ok" -> {"Success", "Error"}
      [] st = "suboptimal" -> {"Success", "Suboptimal", "Error"}
      [] OTHER -> {"OutOfDate", "Error"}

\* Results vkQueuePresentKHR can return for a chain in the given status.
DriverPresent(st) ==
    CASE st = "ok" -> {"Success", "Error"}
      [] st = "suboptimal" -> {"Success", "Suboptimal", "Error"}
      [] OTHER -> {"OutOfDate", "Error"}

\* The surface changes without a WM_SIZE reaching the handler (display mode
\* or surface property change): the current chain becomes stale.
SurfaceChange ==
    /\ pc \notin {"destroy", "done", "fatal"}
    /\ chainStatus # "outofdate"
    /\ chainStatus' \in StaleAfter(chainStatus) \ {chainStatus}
    /\ changedSinceAcquire' =
          (\/ changedSinceAcquire
           \/ pc \in {"render_record", "render_submit", "render_present"})
    /\ UNCHANGED <<cpuVars, vkVars, iconic, surfW, surfH, quitPosted, steps,
                   entryFrame, acqStatus, resizeCause, resizePending,
                   sizeAccepted, staleSeen, everSubmitted>>
    /\ UNCHANGED lifeVars
    /\ UNCHANGED traceVars

----------------------------------------------------------------------------
\* VulkanExampleBase::windowResize

\* Entry of windowResize(): returns at once unless prepared, else clears
\* prepared and goes on to the first device.waitIdle().
WindowResizeEnter(ret, cause) ==
    IF ~prepared
    THEN /\ pc' = ret
         /\ UNCHANGED <<retTo, prepared, resizeCause>>
    ELSE /\ prepared' = FALSE
         /\ pc' = "resize_wait"
         /\ retTo' = ret
         /\ resizeCause' = cause

\* Variant: windowResize() does not wait for the device.
WaitIdlePasses_Skip == TRUE

\* device.waitIdle() returns once no submitted work is left on the device.
WaitIdlePasses == gpuQueue = <<>>

\* First device.waitIdle() of windowResize().
ResizeWaitIdle ==
    /\ pc = "resize_wait"
    /\ WaitIdlePasses
    /\ pc' = "resize_recreate"
    /\ UNCHANGED <<retTo, currentFrame, prepared, resizing,
                   quitMessageReceived, width, height, destWidth, destHeight,
                   camera, shaderData, result, vkVars, envVars, ghostVars>>
    /\ UNCHANGED lifeVars
    /\ UNCHANGED traceVars

\* Extent chosen by VulkanSwapchain::create: the requested size when the
\* surface reports an undefined current extent, else the surface's extent.
CreateExtent(reqW, reqH, defined) ==
    IF defined THEN <<surfW, surfH>> ELSE <<reqW, reqH>>

\* Variant: windowResize() keeps the fences it has.
RecreatedFences_Kept(old) == old

\* windowResize() destroys every wait fence and
\* createSynchronizationPrimitives() creates them again with
\* vk::FenceCreateFlagBits::eSignaled.
RecreatedFences(old) == [s \in Slots |-> TRUE]

\* width = destWidth; height = destHeight; createSwapchain(); depth image,
\* framebuffers and command buffers recreated; fences destroyed and
\* createSynchronizationPrimitives() creates new ones in signaled state.
\* The slots get new semaphores, on which no present is waiting.
ResizeRecreate ==
    /\ pc = "resize_recreate"
    /\ \E defined \in BOOLEAN :
          /\ scExtent' = CreateExtent(destWidth, destHeight, defined)
          /\ width' = scExtent'[1]
          /\ height' = scExtent'[2]
    /\ chainStatus' = "ok"
    /\ commandBuffers' = [s \in Slots |-> "initial"]
    /\ waitFences' = RecreatedFences(waitFences)
    /\ pc' = "resize_finish"
    /\ resizePending' = FALSE
    /\ sizeAccepted' = FALSE
    /\ staleSeen' = FALSE
    /\ UNCHANGED <<retTo, currentFrame, prepared, resizing,
                   quitMessageReceived, destWidth, destHeight, camera,
                   shaderData, result, uniformBuffers, gpuQueue, iconic,
                   surfW, surfH, quitPosted, steps, entryFrame, acqStatus,
                   changedSinceAcquire, resizeCause, everSubmitted>>
    /\ UNCHANGED lifeVars
    /\ presentQueue' = <<>>
    /\ UNCHANGED <<closeRequested, imageIndex, frameLog>>

\* Second device.waitIdle(), windowResized(), prepared = true, return.
ResizeFinish ==
    /\ pc = "resize_finish"
    /\ WaitIdlePasses
    /\ prepared' = TRUE
    /\ pc' = retTo
    /\ retTo' = "none"
    /\ resizeCause' = "none"
    /\ UNCHANGED <<currentFrame, resizing, quitMessageReceived, width, height,
                   destWidth, destHeight, camera, shaderData, result, vkVars,
                   envVars, steps, entryFrame, acqStatus, changedSinceAcquire,
                   resizePending, sizeAccepted, staleSeen, everSubmitted>>
    /\ UNCHANGED lifeVars
    /\ UNCHANGED traceVars

----------------------------------------------------------------------------
\* VulkanExampleBase::handleMessage, dispatched from the PeekMessage loop

\* WM_SIZE is acted on only while prepared, for a non-minimized window, when
\* sent during interactive resizing or on maximize / restore.
SizeAccepted(kind) ==
    /\ prepared
    /\ kind # SIZE_MINIMIZED
    /\ (resizing \/ kind = SIZE_MAXIMIZED \/ kind = SIZE_RESTORED)

\* Variant: the handler only stores the new size and leaves the
\* reconfiguration to a later stale result.
HandleSizeAccepted_Deferred(w, h) ==
    /\ destWidth' = w
    /\ destHeight' = h
    /\ sizeAccepted' = TRUE
    /\ UNCHANGED <<pc, retTo, prepared, resizeCause>>

\* case WM_SIZE, body of the accepting branch:
\* destWidth/destHeight taken from lParam, then windowResize().
HandleSizeAccepted(w, h) ==
    /\ destWidth' = w
    /\ destHeight' = h
    /\ sizeAccepted' = TRUE
    /\ WindowResizeEnter("pump", "WM_SIZE")

\* The window system changes the window (minimize, restore, maximize, or a
\* notification about another window) and sends WM_SIZE with the new client
\* size; handleMessage runs on it.
MsgSize(kind, w, h) ==
    /\ pc = "pump"
    /\ kind \in SizeKinds
    /\ kind = SIZE_MINIMIZED => (w = 0 /\ h = 0)
    /\ kind = SIZE_MAXSHOW => (w = surfW /\ h = surfH)
    /\ iconic' = IF kind = SIZE_MAXSHOW THEN iconic ELSE kind = SIZE_MINIMIZED
    /\ surfW' = w
    /\ surfH' = h
    /\ IF <<w, h>> # <<surfW, surfH>>
       THEN /\ chainStatus' \in StaleAfter(chainStatus)
            /\ resizePending' = TRUE
            /\ staleSeen' = FALSE
       ELSE UNCHANGED <<chainStatus, resizePending, staleSeen>>
    /\ IF SizeAccepted(kind)
       THEN HandleSizeAccepted(w, h)
       ELSE UNCHANGED <<pc, retTo, prepared, resizeCause, destWidth,
                        destHeight, sizeAccepted>>
    /\ UNCHANGED <<currentFrame, resizing, quitMessageReceived, width, height,
                   camera, shaderData, result, vkVars, quitPosted, steps,
                   entryFrame, acqStatus, changedSinceAcquire, everSubmitted>>
    /\ UNCHANGED lifeVars
    /\ UNCHANGED traceVars

\* Variant: WM_CLOSE leaves prepared as it is.
PreparedAfterClose_Kept == prepared

\* prepared = false in case WM_CLOSE.
PreparedAfterClose == FALSE

\* case WM_CLOSE: prepared = false; DestroyWindow; PostQuitMessage(0).
MsgClose ==
    /\ pc = "pump"
    /\ prepared' = PreparedAfterClose
    /\ quitPosted' = TRUE
    /\ closeRequested' = TRUE
    /\ UNCHANGED <<imageIndex, frameLog, presentQueue>>
    /\ UNCHANGED <<pc, retTo, currentFrame, resizing, quitMessageReceived,
                   width, height, destWidth, destHeight, camera, shaderData,
                   result, vkVars, chainStatus, iconic, surfW, surfH,
                   ghostVars>>
    /\ UNCHANGED lifeVars

\* case WM_KEYDOWN, KEY_ESCAPE: PostQuitMessage(0).
MsgKeyEscape ==
    /\ pc = "pump"
    /\ quitPosted' = TRUE
    /\ UNCHANGED <<cpuVars, vkVars, chainStatus, iconic, surfW, surfH,
                   ghostVars>>
    /\ UNCHANGED lifeVars
    /\ UNCHANGED traceVars

\* case WM_ENTERSIZEMOVE / WM_EXITSIZEMOVE.
MsgSizeMove(entering) ==
    /\ pc = "pump"
    /\ resizing # entering
    /\ resizing' = entering
    /\ UNCHANGED <<pc, retTo, currentFrame, prepared, quitMessageReceived,
                   width, height, destWidth, destHeight, camera, shaderData,
                   result, vkVars, envVars, ghostVars>>
    /\ UNCHANGED lifeVars
    /\ UNCHANGED traceVars

\* Mouse and wheel messages move the camera.
MsgMouse(c) ==
    /\ pc = "pump"
    /\ c \in CamVals \ {camera}
    /\ camera' = c
    /\ UNCHANGED <<pc, retTo, currentFrame, prepared, resizing,
                   quitMessageReceived, width, height, destWidth, destHeight,
                   shaderData, result, vkVars, envVars, ghostVars>>
    /\ UNCHANGED lifeVars
    /\ UNCHANGED traceVars

\* PeekMessage returns WM_QUIT: quitMessageReceived = true; break.
MsgQuit ==
    /\ pc = "pump"
    /\ quitPosted
    /\ quitPosted' = FALSE
    /\ quitMessageReceived' = TRUE
    /\ pc' = "next_frame"
    /\ UNCHANGED <<retTo, currentFrame, prepared, resizing, width, height,
                   destWidth, destHeight, camera, shaderData, result, vkVars,
                   chainStatus, iconic, surfW, surfH, ghostVars>>
    /\ UNCHANGED lifeVars
    /\ UNCHANGED traceVars

\* PeekMessage finds the queue empty: the inner loop ends.
NoMessage ==
    /\ pc = "pump"
    /\ ~quitPosted
    /\ pc' = "next_frame"
    /\ UNCHANGED <<retTo, currentFrame, prepared, resizing,
                   quitMessageReceived, width, height, destWidth, destHeight,
                   camera, shaderData, result, vkVars, envVars, ghostVars>>
    /\ UNCHANGED lifeVars
    /\ UNCHANGED traceVars

----------------------------------------------------------------------------
\* VulkanExampleBase::renderLoop

\* Condition under which renderLoop calls nextFrame().
FrameAllowed == prepared /\ ~iconic

\* if (prepared && !IsIconic(window)) nextFrame();
NextFrame ==
    /\ pc = "next_frame"
    /\ IF FrameAllowed
       THEN /\ pc' = "render_wait"
            /\ steps' = <<>>
            /\ entryFrame' = currentFrame
            /\ acqStatus' = "none"
       ELSE /\ pc' = "loop_test"
            /\ UNCHANGED <<steps, entryFrame, acqStatus>>
    /\ UNCHANGED <<retTo, currentFrame, prepared, resizing,
                   quitMessageReceived, width, height, destWidth, destHeight,
                   camera, shaderData, result, vkVars, envVars,
                   changedSinceAcquire, resizeCause, resizePending,
                   sizeAccepted, staleSeen, everSubmitted>>
    /\ UNCHANGED lifeVars
    /\ UNCHANGED traceVars

\* while (!quitMessageReceived)
LoopTest ==
    /\ pc = "loop_test"
    /\ pc' = IF quitMessageReceived THEN "shutdown_wait" ELSE "pump"
    /\ steps' = <<>>
    /\ entryFrame' = currentFrame
    /\ acqStatus' = "none"
    /\ changedSinceAcquire' = FALSE
    /\ shaderData' = 0
    /\ result' = "none"
    /\ imageIndex' = Unset
    /\ frameLog' = NoFrameLog
    /\ UNCHANGED <<retTo, currentFrame, prepared, resizing,
                   quitMessageReceived, width, height, destWidth, destHeight,
                   camera, vkVars, envVars, resizeCause, resizePending,
                   sizeAccepted, staleSeen, everSubmitted>>
    /\ UNCHANGED lifeVars
    /\ UNCHANGED <<closeRequested, presentQueue>>

\* Variant: renderLoop() returns without waiting for the device.
ShutdownIdle_Skip == TRUE

\* device.waitIdle() at the end of renderLoop().
ShutdownIdle == gpuQueue = <<>>

ShutdownWaitIdle ==
    /\ pc = "shutdown_wait"
    /\ ShutdownIdle
    /\ pc' = "destroy"
    /\ UNCHANGED <<retTo, currentFrame, prepared, resizing,
                   quitMessageReceived, width, height, destWidth, destHeight,
                   camera, shaderData, result, vkVars, envVars, ghostVars>>
    /\ UNCHANGED lifeVars
    /\ UNCHANGED traceVars

\* delete vulkanExample: ~VulkanTriangle then ~VulkanExampleBase destroy the
\* buffers, swapchain, framebuffers, semaphores and fences.
Destroy ==
    /\ pc = "destroy"
    /\ pc' = "done"
    /\ UNCHANGED <<retTo, currentFrame, prepared, resizing,
                   quitMessageReceived, width, height, destWidth, destHeight,
                   camera, shaderData, result, vkVars, envVars, ghostVars>>
    /\ UNCHANGED lifeVars
    /\ UNCHANGED traceVars

----------------------------------------------------------------------------
\* VulkanTriangle::render

\* Variant: render() does not wait for the slot's fence.
FenceWaitPasses_NoWait(s) == TRUE

\* device.waitForFences(waitFences[currentFrame], UINT64_MAX) returns once
\* the slot's fence is signaled.
FenceWaitPasses(s) == waitFences[s]

\* Variant: the fence is left signaled after the wait.
ResetFence_Skipped(fences, s) == fences

\* device.resetFences(waitFences[currentFrame]): the slot's fence becomes
\* unsignaled until the next submission with it completes.
ResetFence(fences, s) == [fences EXCEPT ![s] = FALSE]

\* waitForFences, then resetFences on the current slot.
RenderWaitFence ==
    /\ pc = "render_wait"
    /\ FenceWaitPasses(currentFrame)
    /\ waitFences' = ResetFence(waitFences, currentFrame)
    /\ steps' = steps \o <<"wait", "reset">>
    /\ pc' = "render_acquire"
    /\ UNCHANGED <<retTo, currentFrame, prepared, resizing,
                   quitMessageReceived, width, height, destWidth, destHeight,
                   camera, shaderData, result, uniformBuffers, commandBuffers,
                   scExtent, gpuQueue, envVars, entryFrame, acqStatus,
                   changedSinceAcquire, resizeCause, resizePending,
                   sizeAccepted, staleSeen, everSubmitted>>
    /\ UNCHANGED lifeVars
    /\ UNCHANGED traceVars

\* Variant: an out-of-date acquire is not told apart from a successful one.
AcquireOutcome_NoStaleCheck(r) == IF r = "Error" THEN "fatal" ELSE "ok"

\* How render() classifies the result of acquireNextImageKHR.
AcquireOutcome(r) ==
    IF r = "OutOfDate" THEN "stale"
    ELSE IF r # "Success" /\ r # "Suboptimal" THEN "fatal"
    ELSE "ok"

\* Variant: the return after windowResize() is missing.
AcquireStaleReturn_FallThrough == "render_record"

\* Where render() goes on after windowResize() on an out-of-date acquire:
\* it returns to renderLoop.
AcquireStaleReturn == "loop_test"

\* Name under which an acquire with the given driver result is logged.
AcquireStep(r) ==
    IF r = "OutOfDate" THEN "acquire_stale"
    ELSE IF r = "Error" THEN "acquire_error"
    ELSE "acquire"

\* Semaphore render() hands to acquireNextImageKHR for frame slot f:
\* presentCompleteSemaphores[currentFrame].
AcquireSemaphore(f) == f

\* Images the presentation engine can hand out: those not waiting in a
\* queued present.
FreeImages ==
    SwapchainImages \ {presentQueue[k].image : k \in 1..Len(presentQueue)}

\* acquireNextImageKHR and the branch on its result; i is the index the
\* call stores in imageIndex when it hands out an image.
RenderAcquire(r, i) ==
    /\ pc = "render_acquire"
    /\ r \in DriverAcquire(chainStatus)
    /\ r \in {"Success", "Suboptimal"} => i \in FreeImages
    /\ result' = r
    /\ imageIndex' = IF r \in {"Success", "Suboptimal"} THEN i ELSE imageIndex
    /\ frameLog' =
          [frameLog EXCEPT !.acquireSemaphore = AcquireSemaphore(currentFrame)]
    /\ acqStatus' = chainStatus
    /\ changedSinceAcquire' = FALSE
    /\ CASE AcquireOutcome(r) = "stale" ->
              /\ steps' = steps \o <<AcquireStep(r), "windowResize">>
              /\ staleSeen' = resizePending
              /\ WindowResizeEnter(AcquireStaleReturn, "acquire_stale")
         [] AcquireOutcome(r) = "fatal" ->
              /\ steps' = steps \o <<AcquireStep(r)>>
              /\ pc' = "fatal"
              /\ UNCHANGED <<retTo, prepared, resizeCause, staleSeen>>
         [] OTHER ->
              /\ steps' = steps \o <<AcquireStep(r)>>
              /\ pc' = "render_record"
              /\ UNCHANGED <<retTo, prepared, resizeCause, staleSeen>>
    /\ UNCHANGED <<currentFrame, resizing, quitMessageReceived, width, height,
                   destWidth, destHeight, camera, shaderData, vkVars, envVars,
                   entryFrame, resizePending, sizeAccepted, everSubmitted>>
    /\ UNCHANGED lifeVars
    /\ UNCHANGED <<closeRequested, presentQueue>>

\* Variant: one uniform buffer shared by all frame slots.
UniformSlot_Shared(f) == 0

\* Slot whose mapped uniform memory render() writes for frame slot f:
\* uniformBuffers[currentFrame].mapped.
UniformSlot(f) == f

\* shaderData filled from the camera and copied into the slot's mapped
\* uniform memory, then reset and re-record of the slot's command buffer.
RenderRecord ==
    /\ pc = "render_record"
    /\ shaderData' = camera
    /\ uniformBuffers' =
          [uniformBuffers EXCEPT ![UniformSlot(currentFrame)] = shaderData']
    /\ commandBuffers' = [commandBuffers EXCEPT ![currentFrame] = "recorded"]
    /\ steps' = steps \o <<"write", "record">>
    /\ pc' = "render_submit"
    /\ UNCHANGED <<retTo, currentFrame, prepared, resizing,
                   quitMessageReceived, width, height, destWidth, destHeight,
                   camera, result, waitFences, scExtent, gpuQueue, envVars,
                   entryFrame, acqStatus, changedSinceAcquire, resizeCause,
                   resizePending, sizeAccepted, staleSeen, everSubmitted>>
    /\ UNCHANGED lifeVars
    /\ UNCHANGED traceVars

\* submitInfo and the fence of queue.submit for frame slot f:
\* commandBuffers[currentFrame], wait on presentCompleteSemaphores[
\* currentFrame] at eColorAttachmentOutput, signal renderCompleteSemaphores[
\* currentFrame], fence waitFences[currentFrame].
SubmitInfo(f) ==
    [commandBuffer |-> f, waitSemaphore |-> f,
     waitStage |-> "ColorAttachmentOutput", signalSemaphore |-> f,
     fence |-> f]

\* queue.submit of the slot's command buffer with the slot's fence.  The
\* recorded draw reads the uniform memory bound through the descriptor set of
\* slot currentFrame; data is what render() wrote for this frame.
RenderSubmit ==
    /\ pc = "render_submit"
    /\ gpuQueue' = Append(gpuQueue, [slot |-> SubmitInfo(currentFrame).fence,
                                     data |-> shaderData])
    /\ frameLog' =
          [frameLog EXCEPT
              !.commandBuffer = SubmitInfo(currentFrame).commandBuffer,
              !.waitSemaphore = SubmitInfo(currentFrame).waitSemaphore,
              !.waitStage = SubmitInfo(currentFrame).waitStage,
              !.signalSemaphore = SubmitInfo(currentFrame).signalSemaphore,
              !.fence = SubmitInfo(currentFrame).fence]
    /\ everSubmitted' = TRUE
    /\ steps' = steps \o <<"submit">>
    /\ pc' = "render_present"
    /\ UNCHANGED <<retTo, currentFrame, prepared, resizing,
                   quitMessageReceived, width, height, destWidth, destHeight,
                   camera, shaderData, result, waitFences, uniformBuffers,
                   commandBuffers, scExtent, envVars, entryFrame, acqStatus,
                   changedSinceAcquire, resizeCause, resizePending,
                   sizeAccepted, staleSeen>>
    /\ UNCHANGED lifeVars
    /\ UNCHANGED <<closeRequested, imageIndex, presentQueue>>

\* Variant: every present that did not fail is followed by windowResize().
PresentOutcome_AlwaysResize(r) == IF r = "Error" THEN "fatal" ELSE "stale"

\* How render() classifies the result of queue.presentKHR.
PresentOutcome(r) ==
    IF r = "OutOfDate" \/ r = "Suboptimal" THEN "stale"
    ELSE IF r # "Success" THEN "fatal"
    ELSE "ok"

\* Variant: render() returns right after the windowResize() of a stale
\* present, as it does after a stale acquire.
PresentStaleReturn_Return == "loop_test"

\* Where render() continues after the windowResize() of a stale present: no
\* return follows the call, so the frame index is still advanced.
PresentStaleReturn == "render_advance"

\* Variant: the frame index is presented as the image index.
PresentInfo_SlotAsImage(f, idx) == [waitSemaphore |-> f, image |-> f]

\* presentInfo for frame slot f and acquired image idx: wait on
\* renderCompleteSemaphores[currentFrame], pImageIndices = &imageIndex.
PresentInfo(f, idx) == [waitSemaphore |-> f, image |-> idx]

\* queue.presentKHR and the branch on its result.  The presentation engine
\* consumes the semaphore waits on its own schedule, in the order of the
\* presents: queued tells whether the wait is still outstanding when the
\* call returns.
RenderPresent(r, queued) ==
    /\ pc = "render_present"
    /\ r \in DriverPresent(chainStatus)
    /\ queued \/ presentQueue = <<>>
    /\ result' = r
    /\ frameLog' =
          [frameLog EXCEPT
              !.presentWait = PresentInfo(currentFrame, imageIndex).waitSemaphore,
              !.presentImage = PresentInfo(currentFrame, imageIndex).image]
    /\ presentQueue' =
          IF queued /\ r # "Error"
          THEN Append(presentQueue, PresentInfo(currentFrame, imageIndex))
          ELSE presentQueue
    /\ CASE PresentOutcome(r) = "stale" ->
              /\ steps' = steps \o <<"present", "windowResize">>
              /\ staleSeen' = resizePending
              /\ WindowResizeEnter(PresentStaleReturn, "present_stale")
         [] PresentOutcome(r) = "fatal" ->
              /\ steps' = steps \o <<"present_error">>
              /\ pc' = "fatal"
              /\ UNCHANGED <<retTo, prepared, resizeCause, staleSeen>>
         [] OTHER ->
              /\ steps' = steps \o <<"present">>
              /\ pc' = "render_advance"
              /\ UNCHANGED <<retTo, prepared, resizeCause, staleSeen>>
    /\ UNCHANGED <<currentFrame, resizing, quitMessageReceived, width, height,
                   destWidth, destHeight, camera, shaderData, vkVars, envVars,
                   entryFrame, acqStatus, changedSinceAcquire, resizePending,
                   sizeAccepted, everSubmitted>>
    /\ UNCHANGED lifeVars
    /\ UNCHANGED <<closeRequested, imageIndex>>

\* Variant: the frame index is not wrapped.
NextSlot_NoWrap(f) == f + 1

\* Slot selected for the next frame.
NextSlot(f) == (f + 1) % MAX_CONCURRENT_FRAMES

\* currentFrame = (currentFrame + 1) % MAX_CONCURRENT_FRAMES; return.
RenderAdvance ==
    /\ pc = "render_advance"
    /\ currentFrame' = NextSlot(currentFrame)
    /\ steps' = steps \o <<"advance">>
    /\ pc' = "loop_test"
    /\ UNCHANGED <<retTo, prepared, resizing, quitMessageReceived, width,
                   height, destWidth, destHeight, camera, shaderData, result,
                   vkVars, envVars, entryFrame, acqStatus,
                   changedSinceAcquire, resizeCause, resizePending,
                   sizeAccepted, staleSeen, everSubmitted>>
    /\ UNCHANGED lifeVars
    /\ UNCHANGED traceVars

----------------------------------------------------------------------------
Next ==
    \/ \E i \in 1..MAX_CONCURRENT_FRAMES : GpuComplete(i)
    \/ SurfaceChange
    \/ \E kind \in SizeKinds, w \in Dims, h \in Dims : MsgSize(kind, w, h)
    \/ MsgClose
    \/ MsgKeyEscape
    \/ \E entering \in BOOLEAN : MsgSizeMove(entering)
    \/ \E c \in CamVals : MsgMouse(c)
    \/ MsgQuit
    \/ NoMessage
    \/ NextFrame
    \/ LoopTest
    \/ ResizeWaitIdle
    \/ ResizeRecreate
    \/ ResizeFinish
    \/ RenderWaitFence
    \/ \E r \in VkResults, i \in SwapchainImages : RenderAcquire(r, i)
    \/ RenderRecord
    \/ RenderSubmit
    \/ \E r \in VkResults : RenderPresent(r, FALSE)
    \/ RenderAdvance
    \/ ShutdownWaitIdle
    \/ Destroy

Spec == Init /\ [][Next]_vars

\* The statements of render() and of the windowResize() it calls: the thread
\* runs them whenever they are not blocked.
RenderProgress ==
    \/ RenderWaitFence
    \/ \E r \in VkResults, i \in SwapchainImages : RenderAcquire(r, i)
    \/ RenderRecord
    \/ RenderSubmit
    \/ \E r \in VkResults : RenderPresent(r, FALSE)
    \/ RenderAdvance
    \/ ResizeWaitIdle
    \/ ResizeRecreate
    \/ ResizeFinish

\* The frame loop with a GPU that eventually completes every submitted
\* command buffer and a thread that keeps executing.
SpecLive ==
    /\ Spec
    /\ WF_vars(\E i \in 1..MAX_CONCURRENT_FRAMES : GpuComplete(i))
    /\ WF_vars(RenderProgress)

----------------------------------------------------------------------------
\* The presentation engine as a third agent

\* The presentation engine executes the semaphore wait of the oldest queued
\* present; the image of that present can be handed out again.
PresentConsumed ==
    /\ presentQueue # <<>>
    /\ presentQueue' = Tail(presentQueue)
    /\ UNCHANGED <<cpuVars, vkVars, envVars, ghostVars, lifeVars,
                   closeRequested, imageIndex, frameLog>>

\* The frame loop with no window messages, the GPU and a presentation engine
\* that may leave the wait of a present outstanding after presentKHR has
\* returned.
NextPresentation ==
    \/ \E i \in 1..MAX_CONCURRENT_FRAMES : GpuComplete(i)
    \/ PresentConsumed
    \/ SurfaceChange
    \/ NoMessage
    \/ NextFrame
    \/ LoopTest
    \/ ResizeWaitIdle
    \/ ResizeRecreate
    \/ ResizeFinish
    \/ RenderWaitFence
    \/ \E r \in VkResults, i \in SwapchainImages : RenderAcquire(r, i)
    \/ RenderRecord
    \/ RenderSubmit
    \/ \E r \in VkResults, queued \in BOOLEAN : RenderPresent(r, queued)
    \/ RenderAdvance

SpecPresentation == Init /\ [][NextPresentation]_vars

----------------------------------------------------------------------------
\* Failing Vulkan calls at the VK_CHECK_RESULT sites of render()

\* VK_CHECK_RESULT(f): a result other than success is printed as fatal and
\* asserted on.  The assert ends the process in a build with assertions and
\* is empty in a build with NDEBUG, where execution goes on at the next
\* statement; the set holds the positions the build can produce.
CheckResult(r, next) == IF r = "Success" THEN {next} ELSE {"fatal", next}

\* waitForFences returns an error without having waited; where execution
\* goes on, resetFences and the rest of render() follow.
RenderWaitFenceFailed ==
    /\ pc = "render_wait"
    /\ failures < MaxFailures
    /\ failures' = failures + 1
    /\ \E to \in CheckResult("Error", "render_acquire") :
          /\ pc' = to
          /\ IF to = "fatal"
             THEN /\ steps' = steps \o <<"wait_error">>
                  /\ UNCHANGED waitFences
             ELSE /\ steps' = steps \o <<"wait_error", "reset">>
                  /\ waitFences' = [waitFences EXCEPT ![currentFrame] = FALSE]
    /\ UNCHANGED <<retTo, currentFrame, prepared, resizing,
                   quitMessageReceived, width, height, destWidth, destHeight,
                   camera, shaderData, result, uniformBuffers, commandBuffers,
                   scExtent, gpuQueue, envVars, entryFrame, acqStatus,
                   changedSinceAcquire, resizeCause, resizePending,
                   sizeAccepted, staleSeen, everSubmitted>>
    /\ UNCHANGED resourceVars
    /\ UNCHANGED traceVars

\* queue.submit returns an error and queues nothing; where execution goes
\* on, the present follows.
RenderSubmitFailed ==
    /\ pc = "render_submit"
    /\ failures < MaxFailures
    /\ failures' = failures + 1
    /\ pc' \in CheckResult("Error", "render_present")
    /\ steps' = steps \o <<"submit_error">>
    /\ UNCHANGED <<retTo, currentFrame, prepared, resizing,
                   quitMessageReceived, width, height, destWidth, destHeight,
                   camera, shaderData, result, vkVars, envVars, entryFrame,
                   acqStatus, changedSinceAcquire, resizeCause, resizePending,
                   sizeAccepted, staleSeen, everSubmitted>>
    /\ UNCHANGED resourceVars
    /\ UNCHANGED traceVars

NextWithFailures ==
    \/ Next
    \/ RenderWaitFenceFailed
    \/ RenderSubmitFailed

SpecWithFailures == Init /\ [][NextWithFailures]_vars

----------------------------------------------------------------------------
\* VulkanSwapchain::initSurface: choice of the color format

\* The formats initSurface prefers (membership is all the code tests).
PreferredFormats == {"B8G8R8A8Unorm", "R8G8B8A8Unorm", "A8B8G8R8UnormPack32"}

RECURSIVE ScanFormats(_, _, _)
\* The range-for over surfaceFormats from index i on: the first available
\* format found in the preferred list replaces the selection and ends it.
ScanFormats(formats, i, selected) ==
    IF i > Len(formats) THEN selected
    ELSE IF formats[i] \in PreferredFormats THEN formats[i]
    ELSE ScanFormats(formats, i + 1, selected)

\* selectedFormat starts as surfaceFormats[0]; only called on a list that
\* has a first element.
SelectedFormat(formats) == ScanFormats(formats, 1, formats[1])

\* Values surfaceFormats[0] can yield on an empty vector: the index is not
\* checked, so the read is undefined; it yields any format value or one
\* that is no format at all, unless the process faults.
UncheckedFirstFormat == FormatKinds \cup {"Garbage"}

----------------------------------------------------------------------------
\* VulkanSwapchain::create: extent, present mode and image count

\* swapchainExtent: the requested size when the surface's current extent is
\* undefined, else the surface's current extent.
SwapchainExtent(caps, w, h) ==
    IF caps.currentExtent[1] = UndefinedDim THEN <<w, h>>
    ELSE caps.currentExtent

RECURSIVE ScanPresentModes_NoBreak(_, _, _)
\* Variant: the loop goes on after mailbox was found.
ScanPresentModes_NoBreak(modes, i, mode) ==
    IF i > Len(modes) THEN mode
    ELSE IF modes[i] = "Mailbox"
         THEN ScanPresentModes_NoBreak(modes, i + 1, "Mailbox")
    ELSE IF modes[i] = "Immediate"
         THEN ScanPresentModes_NoBreak(modes, i + 1, "Immediate")
    ELSE ScanPresentModes_NoBreak(modes, i + 1, mode)

RECURSIVE ScanPresentModes(_, _, _)
\* The for loop over presentModes from index i on: mailbox ends the loop,
\* immediate is noted and the loop goes on.
ScanPresentModes(modes, i, mode) ==
    IF i > Len(modes) THEN mode
    ELSE IF modes[i] = "Mailbox" THEN "Mailbox"
    ELSE IF modes[i] = "Immediate"
         THEN ScanPresentModes(modes, i + 1, "Immediate")
    ELSE ScanPresentModes(modes, i + 1, mode)

\* Variant: the modes are scanned whether or not v-sync is requested.
SelectPresentMode_IgnoreVsync(vs, modes) == ScanPresentModes(modes, 1, "Fifo")

\* swapchainPresentMode: fifo, replaced by the scan when v-sync is off.
SelectPresentMode(vs, modes) ==
    IF vs THEN "Fifo" ELSE ScanPresentModes(modes, 1, "Fifo")

\* Variant: the maximum is applied even when it is 0 (no limit).
DesiredImages_NoZeroCheck(caps) ==
    IF caps.minImageCount + 1 > caps.maxImageCount
    THEN caps.maxImageCount ELSE caps.minImageCount + 1

\* desiredNumberOfSwapchainImages: one more than the minimum, limited by the
\* maximum when the surface has one.
DesiredImages(caps) ==
    IF caps.maxImageCount > 0 /\ caps.minImageCount + 1 > caps.maxImageCount
    THEN caps.maxImageCount ELSE caps.minImageCount + 1

\* Variant: the new image views are appended to the old vector.
NewImageViews_Append(old, n, gen) ==
    old \o [i \in 1..n |-> Handle("view", gen, i)]

\* imageViews.resize(imageCount), then one view created per image.
NewImageViews(old, n, gen) == [i \in 1..n |-> Handle("view", gen, i)]

\* The image views of the swapchain being replaced or cleaned up.
OldImageViews == {imageViews[i] : i \in 1..Len(images)}

----------------------------------------------------------------------------
\* Resource lifecycle: prepare(), windowResize() and the destructor, followed
\* for the objects they create and destroy.  The frame loop is not followed
\* here; its variables other than the window size keep their values.

loopFixed == <<pc, retTo, currentFrame, prepared, resizing,
               quitMessageReceived, camera, shaderData, result, waitFences,
               uniformBuffers, commandBuffers, gpuQueue, envVars, ghostVars,
               failures, traceVars>>

\* createSurface() -> VulkanSwapchain::initSurface: the surface reports its
\* formats and the color format is selected.  On an empty list the first
\* element is read unchecked: the process faults or goes on with whatever
\* the read yields.
InitSurface ==
    /\ phase = "start"
    /\ \E formats \in FormatLists :
          /\ surfaceFormats' = formats
          /\ IF formats = <<>>
             THEN \/ /\ phase' = "crashed"
                     /\ UNCHANGED colorFormat
                  \/ /\ phase' = "surface"
                     /\ colorFormat' \in UncheckedFirstFormat
             ELSE /\ phase' = "surface"
                  /\ colorFormat' = SelectedFormat(formats)
    /\ surface' = Handle("surface", 0, 0)
    /\ live' = live \cup {surface'}
    /\ UNCHANGED <<loopFixed, width, height, destWidth, destHeight, scExtent,
                   vsync, surfCaps, presentModes, requested, swapchainCI,
                   swapchain, images, imageViews, slotObjects,
                   extraImages, sameInputs, generation, depthStencil,
                   frameBuffers, destroyLog>>

\* VulkanSwapchain::create(width, height, vsync): the surface reports caps
\* and modes, the driver makes extra images more than requested.
CreateSwapchain(caps, modes, w, h, extra) ==
    LET gen == generation + 1
        extent == SwapchainExtent(caps, w, h)
        count == DesiredImages(caps) + extra
    IN  /\ surfCaps' = caps
        /\ presentModes' = modes
        /\ requested' = <<w, h>>
        /\ width' = extent[1]
        /\ height' = extent[2]
        /\ scExtent' = extent
        /\ swapchainCI' =
              [minImageCount |-> DesiredImages(caps),
               imageFormat |-> colorFormat,
               imageExtent |-> extent,
               presentMode |-> SelectPresentMode(vsync, modes)]
        /\ swapchain' = Handle("swapchain", gen, 0)
        /\ images' = [i \in 1..count |-> Handle("image", gen, i)]
        /\ imageViews' = NewImageViews(imageViews, count, gen)
        /\ extraImages' = extra
        /\ sameInputs' = /\ swapchain # NullHandle
                         /\ <<w, h>> = requested
                         /\ caps = surfCaps
                         /\ modes = presentModes
                         /\ extra = extraImages

\* Objects create() destroys: the old chain and its views, if there is one.
CreateDestroys ==
    IF swapchain # NullHandle THEN OldImageViews \cup {swapchain} ELSE {}

\* Handles held by the frame slots.
SlotHandles(objs) ==
    UNION {{objs[s].fence, objs[s].presentComplete, objs[s].renderComplete,
            objs[s].commandBuffer} : s \in Slots}

\* createCommandBuffers() and createSynchronizationPrimitives(): every slot
\* gets a newly allocated command buffer, two new semaphores and a new fence.
NewSlotObjects(gen) ==
    [s \in Slots |->
        [fence |-> Handle("fence", gen, s),
         presentComplete |-> Handle("presentComplete", gen, s),
         renderComplete |-> Handle("renderComplete", gen, s),
         commandBuffer |-> Handle("commandBuffer", gen, s)]]

\* Extents render() records for a frame: renderArea.extent, the viewport and
\* the scissor rectangle are all taken from the members width and height.
RecordedExtents(w, h) ==
    [renderArea |-> <<w, h>>, viewport |-> <<w, h>>, scissor |-> <<w, h>>]

\* setupDepthStencil(): a depth image of width x height and its view.
SetupDepthStencil(gen, w, h) ==
    [view |-> Handle("depthView", gen, 0), extent |-> <<w, h>>]

\* setupFrameBuffer(): frameBuffers.resize(swapchain.images.size()), then
\* one framebuffer of width x height per index, on swapchain.imageViews[i]
\* and the depth view.
SetupFrameBuffer(imgs, views, depth, gen, w, h) ==
    [i \in 1..Len(imgs) |->
        [handle |-> Handle("framebuffer", gen, i),
         color |-> views[i],
         depth |-> depth.view,
         extent |-> <<w, h>>]]

\* Handles of the framebuffers and of the depth view.
FrameBufferHandles(fbs, depth) ==
    {fbs[i].handle : i \in 1..Len(fbs)} \cup ({depth.view} \ {NullHandle})

\* The rest of prepare(): swapchain, command buffers, synchronization
\* primitives, depth image, framebuffers.
PrepareResources ==
    /\ phase = "surface"
    /\ \E caps \in SurfaceCapabilities, modes \in ModeLists, extra \in 0..1 :
          CreateSwapchain(caps, modes, width, height, extra)
    /\ slotObjects' = NewSlotObjects(generation + 1)
    /\ depthStencil' = SetupDepthStencil(generation + 1, width', height')
    /\ frameBuffers' = SetupFrameBuffer(images', imageViews', depthStencil',
                                        generation + 1, width', height')
    /\ live' = (live \ CreateDestroys) \cup {swapchain'}
                  \cup {imageViews'[i] : i \in 1..Len(imageViews')}
                  \cup SlotHandles(slotObjects')
                  \cup FrameBufferHandles(frameBuffers', depthStencil')
    /\ generation' = generation + 1
    /\ surfaceFormats' = <<>>
    /\ phase' = "ready"
    /\ UNCHANGED <<loopFixed, destWidth, destHeight, vsync, colorFormat,
                   surface, destroyLog>>

\* Variant: windowResize() leaves the semaphores of the slots alone.
ResizedSlotObjects_KeepSemaphores(old, gen) ==
    [s \in Slots |->
        [old[s] EXCEPT !.fence = Handle("fence", gen, s),
                       !.commandBuffer = Handle("commandBuffer", gen, s)]]

\* Slots after windowResize(): destroyCommandBuffers, createCommandBuffers,
\* the fences destroyed, createSynchronizationPrimitives.
ResizedSlotObjects(old, gen) == NewSlotObjects(gen)

\* Slot objects windowResize() destroys before creating the new ones.
ResizeDestroys(old) ==
    UNION {{old[s].commandBuffer, old[s].fence} : s \in Slots}

\* Capabilities a surface can report after its window changed: the image
\* counts stay, the extents change.
SameImageCounts(old) ==
    {c \in SurfaceCapabilities :
        /\ c.minImageCount = old.minImageCount
        /\ c.maxImageCount = old.maxImageCount}

\* Variant: windowResize() keeps the depth image it has.
ResizedDepthStencil_Kept(old, gen, w, h) == old

\* Depth image after windowResize(): view, image and memory destroyed, then
\* setupDepthStencil().
ResizedDepthStencil(old, gen, w, h) == SetupDepthStencil(gen, w, h)

\* Variant: windowResize() keeps the framebuffers it has.
ResizedFrameBuffers_Kept(old, imgs, views, depth, gen, w, h) == old

\* Framebuffers after windowResize(): each destroyed, then
\* setupFrameBuffer().
ResizedFrameBuffers(old, imgs, views, depth, gen, w, h) ==
    SetupFrameBuffer(imgs, views, depth, gen, w, h)

\* windowResize() after its guard and waitIdle: width = destWidth, height =
\* destHeight, the swapchain recreated for the surface's new capabilities,
\* then the depth image, the framebuffers and the frame resources.
WindowResizeResources ==
    /\ phase = "ready"
    /\ generation <= MaxResizes
    /\ \E dest \in Extents, caps \in SameImageCounts(surfCaps) :
          /\ destWidth' = dest[1]
          /\ destHeight' = dest[2]
          /\ CreateSwapchain(caps, presentModes, dest[1], dest[2],
                             extraImages)
    /\ slotObjects' = ResizedSlotObjects(slotObjects, generation + 1)
    /\ depthStencil' = ResizedDepthStencil(depthStencil, generation + 1,
                                           width', height')
    /\ frameBuffers' = ResizedFrameBuffers(frameBuffers, images', imageViews',
                                           depthStencil', generation + 1,
                                           width', height')
    /\ live' = (live \ (CreateDestroys \cup ResizeDestroys(slotObjects)
                           \cup FrameBufferHandles(frameBuffers,
                                                   depthStencil)))
                  \cup {swapchain'}
                  \cup {imageViews'[i] : i \in 1..Len(imageViews')}
                  \cup SlotHandles(slotObjects')
                  \cup FrameBufferHandles(frameBuffers', depthStencil')
    /\ generation' = generation + 1
    /\ UNCHANGED <<loopFixed, phase, vsync, surfaceFormats, colorFormat,
                   surface, destroyLog>>

\* Objects VulkanSwapchain::cleanup destroys, in the order of the calls:
\* with a swapchain, imageViews[i] for every i below images.size() and then
\* the swapchain; then the surface if there is one.
CleanupDestroys(sc, imgs, views, surf) ==
    (IF sc # NullHandle
     THEN [i \in 1..Len(imgs) |-> views[i]] \o <<sc>>
     ELSE <<>>)
    \o (IF surf # NullHandle THEN <<surf>> ELSE <<>>)

\* Variant: cleanup leaves the swapchain handle as it is.
SwapchainAfterCleanup_Kept(sc) == sc

\* swapchain = nullptr at the end of cleanup.
SwapchainAfterCleanup(sc) == NullHandle

\* VulkanSwapchain::cleanup.
Cleanup ==
    /\ destroyLog' =
          destroyLog \o CleanupDestroys(swapchain, images, imageViews, surface)
    /\ swapchain' = SwapchainAfterCleanup(swapchain)
    /\ surface' = NullHandle

\* ~VulkanExampleBase: swapchain.cleanup(), then the framebuffers, the depth
\* image, the semaphores and fences the slots hold; deleting the device
\* destroys the command pool and with it the command buffers.  What the
\* surface last reported is no longer kept.
Destructor ==
    /\ phase = "ready"
    /\ phase' = "destroyed"
    /\ Cleanup
    /\ live' = live \ (CreateDestroys \cup {surface}
                         \cup FrameBufferHandles(frameBuffers, depthStencil)
                         \cup SlotHandles(slotObjects))
    /\ surfCaps' = NoCaps
    /\ presentModes' = <<>>
    /\ requested' = <<0, 0>>
    /\ UNCHANGED <<loopFixed, width, height, destWidth, destHeight, scExtent,
                   vsync, surfaceFormats, colorFormat, swapchainCI, images,
                   imageViews, slotObjects, extraImages, sameInputs,
                   generation, depthStencil, frameBuffers>>

\* VulkanSwapchain::cleanup called once more on the cleaned-up object.
CleanupAgain ==
    /\ phase = "destroyed"
    /\ phase' = "cleaned"
    /\ Cleanup
    /\ live' = live \ Range(CleanupDestroys(swapchain, images, imageViews,
                                             surface))
    /\ UNCHANGED <<loopFixed, width, height, destWidth, destHeight, scExtent,
                   vsync, surfaceFormats, colorFormat, surfCaps, presentModes,
                   requested, swapchainCI, images, imageViews, slotObjects,
                   extraImages, sameInputs, generation, depthStencil,
                   frameBuffers>>

\* Start of prepare() for any command line: v-sync on or off, a window of
\* one of the sizes.
InitResources ==
    /\ \E e \in Extents : InitLoop(e[1], e[2])
    /\ \E vs \in BOOLEAN : InitLife("start", vs)

NextResources ==
    \/ InitSurface
    \/ PrepareResources
    \/ WindowResizeResources
    \/ Destructor
    \/ CleanupAgain

SpecResources == InitResources /\ [][NextResources]_vars

----------------------------------------------------------------------------
\* Properties

\* The protocol steps of the running render() call, windowResize() left out.
ProtocolSteps == SelectSeq(steps, LAMBDA x : x # "windowResize")

\* Order of the protocol steps of a completed frame.
Canon == <<"wait", "reset", "acquire", "write", "record", "submit",
           "present", "advance">>

ResizePcs == {"resize_wait", "resize_recreate", "resize_finish"}

\* C1: when render() is about to write the current slot's uniform memory and
\* reset its command buffer, no submitted GPU work that uses that slot is
\* still executing.
SlotReuseSafe == pc = "render_record" => ~InFlight(currentFrame)

\* C1 case: a slot used by an earlier frame is reused while the other slot
\* is still in flight.
SlotReuseSafeWitness ==
    /\ pc = "render_record"
    /\ commandBuffers[currentFrame] = "recorded"
    /\ gpuQueue # <<>>

\* C2: for every frame still executing on the GPU, the uniform memory its draw
\* reads holds exactly the data render() wrote for that frame.
UniformRoundTrip ==
    \A i \in 1..Len(gpuQueue) :
        uniformBuffers[gpuQueue[i].slot] = gpuQueue[i].data

\* C2 case: two frames with different uniform data are in flight together.
UniformRoundTripWitness ==
    /\ Len(gpuQueue) = 2
    /\ gpuQueue[1].data # gpuQueue[2].data

\* C3: once the acquire of a render() call was out of date, the call consists
\* of wait, reset, the stale acquire and windowResize() only (no submit, no
\* present), and currentFrame keeps the value it had on entry until render()
\* has returned; windowResize() has then run to its end and the slot's new
\* fence is signaled, so the same slot is retried on the next tick.
AcquireStaleAborts ==
    "acquire_stale" \in Range(steps) =>
        /\ steps = <<"wait", "reset", "acquire_stale", "windowResize">>
        /\ currentFrame = entryFrame
        /\ pc \in ResizePcs \cup {"loop_test"}
        /\ pc = "loop_test" => (prepared /\ waitFences[currentFrame])

\* C3 case: render() has returned from a stale acquire after earlier frames.
AcquireStaleAbortsWitness ==
    /\ pc = "loop_test"
    /\ "acquire_stale" \in Range(steps)
    /\ everSubmitted

\* C4: currentFrame stays in 0..MAX_CONCURRENT_FRAMES-1; it changes only in
\* the last step of a render() call that submitted, to the next slot modulo
\* the ring size; and every render() call that submitted has advanced it
\* once when it returns.
FrameIndexAdvance ==
    /\ [](currentFrame \in 0..(MAX_CONCURRENT_FRAMES - 1))
    /\ []((pc = "loop_test" /\ "submit" \in Range(steps)) =>
              currentFrame = (entryFrame + 1) % MAX_CONCURRENT_FRAMES)
    /\ [][currentFrame' # currentFrame =>
              /\ pc = "render_advance"
              /\ "submit" \in Range(steps)
              /\ currentFrame' = (currentFrame + 1) % MAX_CONCURRENT_FRAMES]_vars

\* C4 case: the index has wrapped around to slot 0.
FrameIndexAdvanceWitness ==
    /\ pc = "loop_test"
    /\ "advance" \in Range(steps)
    /\ entryFrame = MAX_CONCURRENT_FRAMES - 1
    /\ currentFrame = 0

\* C5: a render() call that completes a frame has taken the protocol steps in
\* the order wait, reset, acquire, write, record, submit, present, advance,
\* each once; and a submit is always preceded, in the same call, by wait,
\* reset, a successful acquire, the uniform write and the recording.
StepOrder ==
    /\ "advance" \in Range(steps) => ProtocolSteps = Canon
    /\ \A i \in 1..Len(steps) :
          steps[i] = "submit" => SubSeq(steps, 1, i) = SubSeq(Canon, 1, 6)

\* C5 case: a frame completed, with a reconfiguration after its present.
StepOrderWitness ==
    /\ pc = "loop_test"
    /\ ProtocolSteps = Canon
    /\ "windowResize" \in Range(steps)

\* C6: when the destructors run, and afterwards, no submitted frame is still
\* in flight: renderLoop() has waited for the device to be idle first.
ShutdownIdleBeforeDestroy == pc \in {"destroy", "done"} => gpuQueue = <<>>

\* C6 case: the destructors are about to run after frames were submitted.
ShutdownIdleBeforeDestroyWitness == pc = "destroy" /\ everSubmitted

\* C7: from the moment windowResize() destroys and recreates the swapchain,
\* depth image, framebuffers, command buffers and fences until it returns, no
\* submitted frame is in flight.
ReconfigureIdle ==
    pc \in {"resize_recreate", "resize_finish"} => gpuQueue = <<>>

\* C7 case: a reconfiguration triggered by a stale present, right after the
\* frame's submission.
ReconfigureIdleWitness ==
    /\ pc = "resize_recreate"
    /\ resizeCause = "present_stale"

\* C8: while the window is minimized or width or height is zero, acquire and
\* present are not called, and the swapchain is never created with a zero
\* extent.
ZeroExtentSkipsFrames ==
    /\ (iconic \/ width = 0 \/ height = 0) =>
           pc \notin {"render_acquire", "render_present"}
    /\ pc = "resize_finish" => (scExtent[1] > 0 /\ scExtent[2] > 0)

\* C9 as stated: a reconfiguration that follows a resize event is preceded by
\* a stale result of acquire or present.
StaleBeforeReconfigure ==
    (pc = "resize_recreate" /\ resizePending) => staleSeen

\* C9 amended: every reconfiguration is triggered by an accepted WM_SIZE or by
\* a stale result of the running render() call (acquire out of date, present
\* out of date or suboptimal), and an accepted WM_SIZE is applied by
\* windowResize() at once, before any further acquire or present.
ReconfigureTriggered ==
    /\ pc \in ResizePcs =>
           resizeCause \in {"WM_SIZE", "acquire_stale", "present_stale"}
    /\ resizeCause = "acquire_stale" => result = "OutOfDate"
    /\ resizeCause = "present_stale" => result \in {"OutOfDate", "Suboptimal"}
    /\ resizeCause = "WM_SIZE" => result = "none"
    /\ sizeAccepted =>
           (pc \in {"resize_wait", "resize_recreate"} /\ resizeCause = "WM_SIZE")

\* C9 case: the chain is reconfigured for a resize event with no stale result
\* in between.
ReconfigureTriggeredWitness ==
    /\ pc = "resize_recreate"
    /\ resizeCause = "WM_SIZE"
    /\ resizePending
    /\ ~staleSeen
    /\ everSubmitted

\* The present of the running render() call was treated as stale.
PresentTreatedStale ==
    "present" \in Range(steps) /\ "windowResize" \in Range(steps)

RECURSIVE CountFrom(_, _, _)
CountFrom(seq, i, x) ==
    IF i > Len(seq) THEN 0
    ELSE (IF seq[i] = x THEN 1 ELSE 0) + CountFrom(seq, i + 1, x)

StepCount(x) == CountFrom(steps, 1, x)

\* C21: a present that returns out-of-date or suboptimal enters windowResize()
\* once, which reconfigures and comes back into render(), and the call still
\* advances currentFrame to the next slot; a present that returns success
\* enters no windowResize(), and the call advances the same way.
PresentStaleReconfiguresOnce ==
    /\ []((pc = "loop_test" /\ "present" \in Range(steps)) =>
              /\ steps[Len(steps)] = "advance"
              /\ currentFrame = NextSlot(entryFrame)
              /\ StepCount("windowResize") =
                     (IF result \in {"OutOfDate", "Suboptimal"} THEN 1 ELSE 0))
    /\ []((pc \in ResizePcs /\ resizeCause = "present_stale") =>
              /\ retTo = "render_advance"
              /\ StepCount("windowResize") = 1)
    /\ [][(pc = "render_present" /\ pc' \notin {pc, "fatal"}) =>
              IF result' \in {"OutOfDate", "Suboptimal"}
              THEN pc' = "resize_wait" /\ resizeCause' = "present_stale"
              ELSE pc' = "render_advance" /\ result' = "Success"]_vars

\* C21 case: a render() call whose present was stale has reconfigured and
\* moved on to the next slot.
PresentStaleReconfiguresWitness ==
    /\ pc = "loop_test"
    /\ result \in {"OutOfDate", "Suboptimal"}
    /\ "present" \in Range(steps)
    /\ StepCount("windowResize") = 1
    /\ chainStatus = "ok"
    /\ currentFrame = NextSlot(entryFrame)

\* Submitted frames whose fence has not been signaled yet.
FramesInFlight == {i \in 1..Len(gpuQueue) : ~waitFences[gpuQueue[i].slot]}

\* Submissions of slot s that the GPU has not finished.
Pending(s) == {i \in 1..Len(gpuQueue) : gpuQueue[i].slot = s}

\* C24: at most MAX_CONCURRENT_FRAMES submitted frames are in flight, at most
\* one per slot, whichever order and speed the GPU completes them in; and a
\* frame is submitted on a slot only when the slot's previous submission has
\* finished.
FramesInFlightBounded ==
    /\ [](Cardinality(FramesInFlight) <= MAX_CONCURRENT_FRAMES)
    /\ [](Len(gpuQueue) <= MAX_CONCURRENT_FRAMES)
    /\ [](\A s \in Slots : Cardinality(Pending(s)) <= 1)
    /\ [][Len(gpuQueue') > Len(gpuQueue) =>
              /\ Pending(currentFrame) = {}
              /\ gpuQueue'[Len(gpuQueue')].slot = currentFrame]_vars

\* C24 case: every slot has a frame in flight and render() is waiting on the
\* fence of the slot it wants to reuse.
FramesInFlightWitness ==
    /\ pc = "render_wait"
    /\ Cardinality(FramesInFlight) = MAX_CONCURRENT_FRAMES
    /\ ~FenceWaitPasses(currentFrame)

\* Positions of the thread outside render() and windowResize().
LoopPcs == {"pump", "next_frame", "loop_test", "render_wait"}

\* The fence of slot s is signaled or a submitted command buffer will signal
\* it.
FenceWillSignal(s) == waitFences[s] \/ InFlight(s)

\* C25: at every entry to render(), and whenever the thread is between two
\* render() calls, each slot's fence is signaled or will be signaled by a
\* command buffer already submitted; with a GPU that completes every
\* submitted command buffer the fence wait is left and the render() call
\* ends: it returns or raises the fatal error of a failed acquire or present.
FenceWaitTerminates ==
    /\ [](pc \in LoopPcs => \A s \in Slots : FenceWillSignal(s))
    /\ (pc = "render_wait") ~> (pc \in {"loop_test", "fatal"})

\* C25 case: render() reset the slot's fence, found the chain out of date,
\* reconfigured and returned without submitting, on the same slot.
FenceWaitTerminatesWitness ==
    /\ pc = "loop_test"
    /\ "reset" \in Range(steps)
    /\ "acquire_stale" \in Range(steps)
    /\ currentFrame = entryFrame
    /\ ~InFlight(currentFrame)
    /\ waitFences[currentFrame]

\* Positions of the thread inside render().
RenderPcs == {"render_wait", "render_acquire", "render_record",
              "render_submit", "render_present", "render_advance"}

\* C26 as stated: once WM_QUIT has been dequeued the thread does not enter
\* render() again, so it is nowhere inside render() or a windowResize()
\* called from it.
NoFrameAfterQuit ==
    quitMessageReceived => pc \notin (RenderPcs \cup ResizePcs)

\* C27: after a WM_CLOSE prepared is false for good; no render() and no
\* windowResize() body runs, no protocol step is taken, and the swapchain
\* extent, the window size, the command buffers and the fences are left as
\* they are, a fence changing only by the GPU finishing a submission.
CloseIsFinal ==
    /\ [](closeRequested =>
              /\ ~prepared
              /\ pc \notin (RenderPcs \cup ResizePcs))
    /\ [][closeRequested =>
              /\ closeRequested'
              /\ UNCHANGED <<scExtent, width, height, commandBuffers,
                             currentFrame, steps>>
              /\ Len(gpuQueue') <= Len(gpuQueue)
              /\ waitFences' # waitFences =>
                     Len(gpuQueue') < Len(gpuQueue)]_vars

\* C27 case: after a WM_CLOSE the surface went out of date and a pass of
\* the loop went by the nextFrame() test without a frame or a reconfigure.
CloseIsFinalWitness ==
    /\ closeRequested
    /\ pc = "loop_test"
    /\ chainStatus = "outofdate"
    /\ steps = <<>>

\* C22: the submission of a render() call uses the command buffer, the
\* acquire semaphore (waited on at the color-attachment-output stage), the
\* render-done semaphore and the fence of the slot the call was entered with,
\* the waited semaphore being the one handed to that call's acquire; the
\* present of the call waits on the semaphore that submission signals and
\* presents the image index that acquire returned.
FrameHandlesOfOneSlot ==
    /\ [](frameLog.fence # Unset =>
              /\ frameLog.commandBuffer = entryFrame
              /\ frameLog.waitSemaphore = entryFrame
              /\ frameLog.signalSemaphore = entryFrame
              /\ frameLog.fence = entryFrame
              /\ frameLog.waitStage = "ColorAttachmentOutput"
              /\ frameLog.acquireSemaphore = frameLog.waitSemaphore
              /\ imageIndex \in SwapchainImages)
    /\ [](frameLog.presentWait # Unset =>
              /\ frameLog.fence # Unset
              /\ frameLog.presentWait = frameLog.signalSemaphore
              /\ frameLog.presentImage = imageIndex)
    /\ [][Len(gpuQueue') > Len(gpuQueue) =>
              /\ gpuQueue'[Len(gpuQueue')].slot = frameLog'.fence
              /\ frameLog'.fence = currentFrame]_vars

\* C22 case: a frame on the second slot was presented with an acquired image
\* index that differs from the slot index.
FrameHandlesWitness ==
    /\ pc = "render_advance"
    /\ entryFrame = 1
    /\ frameLog.presentWait = 1
    /\ frameLog.presentImage = MAX_CONCURRENT_FRAMES
    /\ result = "Success"

\* Semaphores on which a queued present still waits.
PresentWaits == {presentQueue[k].waitSemaphore : k \in 1..Len(presentQueue)}

\* C28 as stated: when render() hands the slot's acquire semaphore to the
\* image acquire, no submission waiting on that semaphore is unfinished; and
\* when render() submits work that signals the slot's render-done semaphore,
\* no earlier present is still waiting on that semaphore.
SemaphoresReusedWhenIdle ==
    [][/\ (pc = "render_acquire" /\ pc' # pc) =>
              ~InFlight(frameLog'.acquireSemaphore)
       /\ Len(gpuQueue') > Len(gpuQueue) =>
              frameLog'.signalSemaphore \notin PresentWaits]_vars

----------------------------------------------------------------------------
\* Properties of the swapchain configuration, under SpecResources

\* Same create-info and same chain length before and after a step.
SameChain ==
    /\ Len(images') = Len(images)
    /\ Len(imageViews') = Len(imageViews)
    /\ swapchainCI'.imageFormat = swapchainCI.imageFormat
    /\ swapchainCI'.presentMode = swapchainCI.presentMode
    /\ swapchainCI'.imageExtent = swapchainCI.imageExtent

\* C11: a create called with the width, height and vsync of the create
\* before it, while the surface reports the same capabilities and present
\* modes and the driver behaves the same, yields a chain of the same length,
\* color format, present mode and extent.
CreateIdempotent ==
    [][(phase' = "ready" /\ sameInputs') => SameChain]_vars

CreateIdempotentWitness ==
    /\ phase = "ready"
    /\ sameInputs
    /\ generation = 2
    /\ Len(images) = swapchainCI.minImageCount + 1

\* C12: started with the default window size 1280x720 (the surface's current
\* extent is that size or undefined) and vsync on, the first create selects
\* fifo whatever modes are reported, requests minImageCount + 1 images
\* limited by maxImageCount, and the extent, width and height are 1280x720.
StartupConfiguration ==
    (/\ phase = "ready"
     /\ generation = 1
     /\ vsync
     /\ requested = <<DefaultWidth, DefaultHeight>>
     /\ surfCaps.currentExtent \in
           {UndefinedExtent, <<DefaultWidth, DefaultHeight>>})
    => /\ swapchainCI.presentMode = "Fifo"
       /\ swapchainCI.minImageCount =
             IF /\ surfCaps.maxImageCount > 0
                /\ surfCaps.minImageCount + 1 > surfCaps.maxImageCount
             THEN surfCaps.maxImageCount
             ELSE surfCaps.minImageCount + 1
       /\ swapchainCI.imageExtent = <<DefaultWidth, DefaultHeight>>
       /\ width = DefaultWidth
       /\ height = DefaultHeight

StartupConfigurationWitness ==
    /\ phase = "ready"
    /\ generation = 1
    /\ vsync
    /\ requested = <<DefaultWidth, DefaultHeight>>
    /\ surfCaps.currentExtent = <<DefaultWidth, DefaultHeight>>
    /\ presentModes = <<"Immediate", "Mailbox">>
    /\ swapchainCI.presentMode = "Fifo"
    /\ width = DefaultWidth

\* C13: with vsync the present mode is fifo; without, it is mailbox if the
\* surface reports mailbox, else immediate if it reports immediate, else
\* fifo, whatever the order of the reported list; the mode is always fifo or
\* a reported one.
PresentModeSelection ==
    phase = "ready" =>
        LET advertised == Range(presentModes)
            mode == swapchainCI.presentMode
        IN  /\ vsync => mode = "Fifo"
            /\ ~vsync =>
                  mode = IF "Mailbox" \in advertised THEN "Mailbox"
                         ELSE IF "Immediate" \in advertised THEN "Immediate"
                         ELSE "Fifo"
            /\ mode \in advertised \cup {"Fifo"}

PresentModeSelectionWitness ==
    /\ phase = "ready"
    /\ ~vsync
    /\ presentModes = <<"Mailbox", "Immediate">>
    /\ swapchainCI.presentMode = "Mailbox"

\* C14: the requested image count is minImageCount + 1, or maxImageCount
\* when that is above 0 and below minImageCount + 1; it is never below
\* minImageCount and, when maxImageCount is above 0, never above it.
ImageCountClamped ==
    phase = "ready" =>
        LET n == swapchainCI.minImageCount
            lo == surfCaps.minImageCount
            hi == surfCaps.maxImageCount
        IN  /\ n = IF hi > 0 /\ lo + 1 > hi THEN hi ELSE lo + 1
            /\ n >= lo
            /\ hi > 0 => n <= hi

ImageCountClampedWitness ==
    /\ phase = "ready"
    /\ surfCaps.maxImageCount > 0
    /\ surfCaps.minImageCount + 1 > surfCaps.maxImageCount
    /\ swapchainCI.minImageCount = surfCaps.maxImageCount

\* C15: whatever size is requested, the extent create chooses, and the
\* width and height it hands back, lie within the surface's minImageExtent
\* and maxImageExtent in each dimension.
ExtentWithinSurfaceLimits ==
    phase = "ready" =>
        /\ ExtentLe(surfCaps.minImageExtent, swapchainCI.imageExtent)
        /\ ExtentLe(swapchainCI.imageExtent, surfCaps.maxImageExtent)
        /\ ExtentLe(surfCaps.minImageExtent, <<width, height>>)
        /\ ExtentLe(<<width, height>>, surfCaps.maxImageExtent)

\* C16: a surface that reports no format makes the configuration fail
\* before any format is used: initSurface neither returns with a color
\* format nor faults.
NoFormatFailsConfiguration ==
    phase \in {"surface", "crashed"} => surfaceFormats # <<>>

\* C17: the color format initSurface selects is one the surface reported:
\* the first reported format that is in the preferred list, or the first
\* reported format when none is preferred.
FormatSelection ==
    phase = "surface" =>
        LET preferred == {i \in 1..Len(surfaceFormats) :
                             surfaceFormats[i] \in PreferredFormats}
        IN  /\ colorFormat \in Range(surfaceFormats)
            /\ \A i \in preferred :
                  (\A j \in preferred : i <= j)
                     => colorFormat = surfaceFormats[i]
            /\ preferred = {} => colorFormat = surfaceFormats[1]

\* The selection of C17 for surfaces that report at least one format.
FormatSelectionOfReported ==
    (phase = "surface" /\ surfaceFormats # <<>>) => FormatSelection

----------------------------------------------------------------------------
\* Properties of the frame slots' objects, under SpecResources

\* A step of windowResize() in the resource lifecycle.
ResizeStep == phase = "ready" /\ phase' = "ready" /\ generation' # generation

\* C18: a windowResize() leaves the fence, both semaphores and the command
\* buffer of every slot as they were.
SlotObjectsSurviveResize ==
    [][ResizeStep => slotObjects' = slotObjects]_vars

\* C18 as the code has it: a windowResize() gives every slot a new fence,
\* two new semaphores and a new command buffer, all alive afterwards, and
\* the old fence and the old command buffer are gone.
SlotObjectsRecreatedOnResize ==
    [][ResizeStep =>
        \A s \in Slots :
            /\ slotObjects'[s].fence # slotObjects[s].fence
            /\ slotObjects'[s].presentComplete
                  # slotObjects[s].presentComplete
            /\ slotObjects'[s].renderComplete
                  # slotObjects[s].renderComplete
            /\ slotObjects'[s].commandBuffer # slotObjects[s].commandBuffer
            /\ SlotHandles(slotObjects') \subseteq live'
            /\ slotObjects[s].fence \notin live'
            /\ slotObjects[s].commandBuffer \notin live']_vars

SlotObjectsRecreatedWitness ==
    /\ phase = "ready"
    /\ generation = 2
    /\ \A s \in Slots : slotObjects[s].fence = Handle("fence", 2, s)
    /\ Handle("fence", 1, 0) \notin live

\* Fences and semaphores among the live objects.
LiveSync ==
    {h \in live : h[1] \in {"fence", "presentComplete", "renderComplete"}}

\* C19: the destructor leaves no fence or semaphore alive, and until then
\* every live fence or semaphore is still held by its slot, so that no
\* handle was overwritten while its object was alive.
SyncObjectsReleased ==
    /\ phase = "destroyed" => LiveSync = {}
    /\ phase = "ready" => LiveSync \subseteq SlotHandles(slotObjects)

\* C23: while the example is prepared, the render area, viewport and scissor
\* that render() records from width and height equal the extent of the
\* current swapchain, of every framebuffer and of the depth image, after
\* prepare() and after every windowResize().
RenderExtentsMatch ==
    phase = "ready" =>
        LET rec == RecordedExtents(width, height)
            extent == swapchainCI.imageExtent
        IN  /\ rec.renderArea = extent
            /\ rec.viewport = extent
            /\ rec.scissor = extent
            /\ scExtent = extent
            /\ depthStencil.extent = extent
            /\ \A i \in 1..Len(frameBuffers) : frameBuffers[i].extent = extent

\* C23 case: after a windowResize() the surface dictated an extent other than
\* the requested destWidth x destHeight, and the frame resources follow it.
RenderExtentsMatchWitness ==
    /\ phase = "ready"
    /\ generation = 2
    /\ swapchainCI.imageExtent # <<destWidth, destHeight>>
    /\ depthStencil = SetupDepthStencil(2, width, height)
    /\ Len(frameBuffers) > 0

\* C29: while the example is prepared there is one framebuffer per swapchain
\* image and per image view, so every index an acquire can return has one;
\* framebuffer i is built on the current imageViews[i] and on the current
\* depth view, and these and the framebuffer itself are alive.
FrameBuffersMatchViews ==
    phase = "ready" =>
        /\ Len(frameBuffers) = Len(images)
        /\ Len(images) = Len(imageViews)
        /\ Len(frameBuffers) > 0
        /\ \A i \in 1..Len(frameBuffers) :
              /\ frameBuffers[i].color = imageViews[i]
              /\ frameBuffers[i].color \in live
              /\ frameBuffers[i].depth = depthStencil.view
              /\ frameBuffers[i].depth \in live
              /\ frameBuffers[i].handle \in live

\* C29 case: a windowResize() has destroyed the image views of the first
\* swapchain and the framebuffers are those of the second.
FrameBuffersMatchViewsWitness ==
    /\ phase = "ready"
    /\ generation = 2
    /\ Handle("view", 1, 1) \notin live
    /\ frameBuffers[1].color = Handle("view", 2, 1)

\* Positions in the cleanup log of the objects of the given kind.
LogPositions(kind) ==
    {i \in 1..Len(destroyLog) : destroyLog[i][1] = kind}

\* C30: cleanup destroys every image view of the swapchain, then the
\* swapchain, then the surface, each of them alive until then; afterwards
\* both handles are null, and a second call destroys nothing, so that no
\* object is destroyed twice.
CleanupOnce ==
    /\ [](phase \in {"destroyed", "cleaned"} =>
              /\ swapchain = NullHandle
              /\ surface = NullHandle
              /\ \A i \in 1..Len(images) : imageViews[i] \in Range(destroyLog)
              /\ LogPositions("swapchain") # {}
              /\ LogPositions("surface") # {})
    /\ [](\A i \in LogPositions("view"), j \in LogPositions("swapchain"),
             k \in LogPositions("surface") : i < j /\ j < k)
    /\ [](\A i, j \in 1..Len(destroyLog) :
              i # j => destroyLog[i] # destroyLog[j])
    /\ [][destroyLog' # destroyLog =>
              \A i \in (Len(destroyLog) + 1)..Len(destroyLog') :
                  destroyLog'[i] \in live]_vars
    /\ [][phase = "destroyed" /\ phase' = "cleaned" =>
              destroyLog' = destroyLog /\ live' = live]_vars

\* C30 case: cleanup ran twice on a swapchain that had been recreated once.
CleanupOnceWitness ==
    /\ phase = "cleaned"
    /\ generation = 2
    /\ Len(destroyLog) = Len(images) + 2

----------------------------------------------------------------------------
\* Properties of failing calls, under SpecWithFailures

\* Steps logged for a call of render() that returned a failure.
ErrorSteps ==
    {"wait_error", "acquire_error", "submit_error", "present_error"}

\* C20: a failure of the fence wait or reset, the acquire, the submit or the
\* present is the last step of its frame and ends the process, and the
\* process ends for no other reason: an out-of-date acquire or present does
\* not end it.
FailureIsFatal ==
    /\ \A i \in 1..Len(steps) :
          steps[i] \in ErrorSteps => (i = Len(steps) /\ pc = "fatal")
    /\ pc = "fatal" => (steps # <<>> /\ steps[Len(steps)] \in ErrorSteps)

====
